---- MODULE Spec2Model ----
(***************************************************************************)
(* Model of the video.js / hls.js integration of src/unnamed/part_000:     *)
(*   - registerSourceHandler, the source handler it registers and the      *)
(*     HLSJSConfigHandler plugin that calls it;                            *)
(*   - PodResolutionsPlugin, the registry of selectable quality levels;    *)
(*   - Html5Hlsjs, the provider that owns one hls.js engine and applies    *)
(*     the error-recovery policy.                                          *)
(* The hls.js engine and the host player are external: the model keeps of  *)
(* them only what the provider reads and writes (levels, loadLevel,        *)
(* manualLevel, the FRAG_LOADED once-listeners, destroy) with hls.js 1.x   *)
(* semantics, and lets the engine emit its events in any order.            *)
(***************************************************************************)
EXTENDS Integers, Sequences, FiniteSets, TLC

\* ------------------------------------------------------------------------
\* Bounds of the model
\* ------------------------------------------------------------------------
MaxLevels == 2
MaxFallbackLevels == 3
MaxTimers == 1
MaxNetworkErrors == 7
MaxMediaErrors == 4
MaxOtherErrors == 1
MaxTechErrors == 2
MaxLiveNetworkErrors == 32
MaxResolutions == 3
MaxRegistry == 6
MaxTechErrorEvents == 3
MaxAttachedListeners == 3
MaxElementErrorListeners == 3

\* ------------------------------------------------------------------------
\* Program constants
\* ------------------------------------------------------------------------
DefaultMaxNetworkErrorRecovery == 5
LiveMaxNetworkErrorRecovery == 30
AutoId == -1
MEDIA_ERR_DECODE == 3

NETWORK_ERROR == "networkError"
MEDIA_ERROR == "mediaError"
OTHER_ERROR == "otherError"
ErrorTypes == {NETWORK_ERROR, MEDIA_ERROR, OTHER_ERROR}
IncompatibleCodecs == "manifestIncompatibleCodecsError"
ErrorDetails == {IncompatibleCodecs, "otherDetail"}

\* null / undefined and a present value
None == <<>>
Some(x) == <<x>>

VARIABLES
  \* hls.js engine (this.hls)
  hlsLevels,          \* hls.levels, element i+1 is the level of index i
  loadLevel,          \* hls.loadLevel, -1 when no level is being loaded
  manualLevel,        \* hls.manualLevel, -1 when autoLevelEnabled
  hlsDestroyed,       \* no engine is live: hls.destroy() was called, or none was created
  fragLoadedOnce,     \* hls.once(FRAG_LOADED) reset listeners are pending (see ScheduleRetry)
  \* Html5Hlsjs
  errorCounts,        \* this.errorCounts, 0 for an absent key
  maxNetworkErrorRecovery,
  isLive,
  metadata,           \* this.metadata: None or Some(levels of the manifest)
  timers,             \* pending setTimeout(() => hls.startLoad(), 1000)
  disposed,           \* the video element has no listener of a provider (dispose() ran)
  \* host
  onLine,             \* navigator.onLine
  techError,          \* tech.error was replaced by the accessor of the surfaced error
  techErrors,         \* number of tech.trigger("error") so far
  \* PodResolutionsPlugin
  resolutions,
  currentSelection,
  autoResolutionChosenId,
  \* module, host player and tech
  alreadyRegistered,  \* the module-level guard of registerSourceHandler
  registrations,      \* number of html5.registerSourceHandler calls so far
  pluginLive,         \* the player has an HLSJSConfigHandler instance
  srOptions,          \* player.srOptions_ is set
  hlsProvider,        \* tech.hlsProvider is set: the fields above are its fields
  source,             \* this.source of the provider, as handed to handleSource
  orphanEngines,      \* engines, not destroyed, of providers the tech no longer holds
  \* observation
  refused,            \* a registerSourceHandler call returned at one of its two tests
  changePhase,        \* see HandleSource
  calls,              \* calls and notifications made by the last handler
  netRun,             \* see NetRunAfterError
  mediaRun,           \* see MediaRunAfterError
  retryScheduled,     \* a retry was scheduled since construction / the last FRAG_LOADED
  resetSeen,          \* a FRAG_LOADED arrived after a scheduled retry
  liveReported,       \* a LEVEL_LOADED event reported the stream as live
  \* the Hlsjs tech of dist/videojs-hlsjs.js
  techHlsDestroyed,   \* this.hls_.destroy() was called on the engine the tech holds
  techErrorCode,      \* the code this.error() returns: None, or Some(3) once replaced
  techErrorEvents,    \* number of this.trigger('error') so far
  attachedListeners,  \* startLoad listeners of MEDIA_ATTACHED on the tech's engine
  elementErrorListeners \* 'error' listeners of the tech on its video element

hlsVars == <<hlsLevels, loadLevel, manualLevel, hlsDestroyed, fragLoadedOnce>>
providerVars == <<errorCounts, maxNetworkErrorRecovery, isLive, metadata, timers, disposed>>
hostVars == <<onLine, techError, techErrors>>
registryVars == <<resolutions, currentSelection, autoResolutionChosenId>>
hlsjsTechVars ==
  <<techHlsDestroyed, techErrorCode, techErrorEvents, attachedListeners,
    elementErrorListeners>>
handlerVars ==
  <<alreadyRegistered, registrations, pluginLive, srOptions, hlsProvider, source,
    orphanEngines, refused, changePhase, hlsjsTechVars>>
runVars == <<netRun, mediaRun, retryScheduled, resetSeen, liveReported>>
ghostVars == <<calls, runVars>>
vars == <<hlsVars, providerVars, hostVars, registryVars, handlerVars, ghostVars>>

\* ------------------------------------------------------------------------
\* Sequence helpers
\* ------------------------------------------------------------------------
\* filter((r) => r.id !== id)
RECURSIVE WithoutId(_, _)
WithoutId(s, id) ==
  IF s = <<>> THEN <<>>
  ELSE IF Head(s).id # id THEN <<Head(s)>> \o WithoutId(Tail(s), id)
       ELSE WithoutId(Tail(s), id)

\* find((r) => r.id === id): None when nothing matches
RECURSIVE FindById(_, _)
FindById(s, id) ==
  IF s = <<>> THEN None
  ELSE IF Head(s).id = id THEN Some(Head(s)) ELSE FindById(Tail(s), id)

\* the array without the element of (0-based) index i; unchanged when i is no index
RemoveIndex(s, i) ==
  IF i + 1 \in 1..Len(s)
  THEN [k \in 1..(Len(s) - 1) |-> IF k < i + 1 THEN s[k] ELSE s[k + 1]]
  ELSE s

Called(c) == \E k \in 1..Len(calls) : calls[k] = c

\* ------------------------------------------------------------------------
\* registerSourceHandler and the source handler it registers
\* ------------------------------------------------------------------------
\* Strings the regular expressions read are sequences of characters.
MpegUrlType == <<"a", "p", "p", "l", "i", "c", "a", "t", "i", "o", "n", "/", "x", "-", "m", "p", "e", "g", "U", "R", "L">>
AppleTypeUpperCase ==
  <<"A", "P", "P", "L", "I", "C", "A", "T", "I", "O", "N", "/", "V", "N", "D", ".", "A", "P", "P", "L", "E", ".", "M", "P", "E", "G", "U", "R", "L">>
AppleTypePattern ==
  <<"a", "p", "p", "l", "i", "c", "a", "t", "i", "o", "n", "/", "v", "n", "d", ".", "a", "p", "p", "l", "e", ".", "m", "p", "e", "g", "u", "r", "l">>
Mp4Type == <<"v", "i", "d", "e", "o", "/", "m", "p", "4">>
UndefinedText == <<"u", "n", "d", "e", "f", "i", "n", "e", "d">>
M3u8Src == <<"/", "v", ".", "m", "3", "u", "8">>
M3u8SrcUpperCase == <<"/", "v", ".", "M", "3", "U", "8", "?", "t">>
Mp4Src == <<"/", "v", ".", "m", "p", "4">>
DotM3u8 == <<".", "m", "3", "u", "8">>

\* the i flag: letters compare by their lower-case form
LowerCase(c) ==
  CASE c = "A" -> "a" [] c = "C" -> "c" [] c = "D" -> "d" [] c = "E" -> "e"
    [] c = "G" -> "g" [] c = "I" -> "i" [] c = "L" -> "l" [] c = "M" -> "m"
    [] c = "N" -> "n" [] c = "O" -> "o" [] c = "P" -> "p" [] c = "R" -> "r"
    [] c = "T" -> "t" [] c = "U" -> "u" [] c = "V" -> "v" [] c = "X" -> "x"
    [] OTHER -> c

\* the literal pattern `pat` matches the text at (1-based) position `at`
MatchesAt(text, pat, at) ==
  /\ at >= 1
  /\ at + Len(pat) - 1 <= Len(text)
  /\ \A k \in 1..Len(pat) : LowerCase(text[at + k - 1]) = LowerCase(pat[k])

\* RegExp.prototype.test converts its argument to a string
TextOf(value) == IF value = None THEN UndefinedText ELSE value[1]

\* /^application\/x-mpegURL|application\/vnd\.apple\.mpegurl$/i: the
\* alternation binds last, ^ belongs to the first branch and $ to the second
HlsTypeRE(text) ==
  \/ MatchesAt(text, MpegUrlType, 1)
  \/ MatchesAt(text, AppleTypePattern, Len(text) - Len(AppleTypePattern) + 1)

\* /\.m3u8/i
HlsExtRE(text) == \E at \in 1..Len(text) : MatchesAt(text, DotM3u8, at)

\* canHandleSource(source)
CanHandleSource(src) ==
  IF HlsTypeRE(TextOf(src.type)) THEN "probably"
  ELSE IF HlsExtRE(TextOf(src.src)) THEN "maybe"
  ELSE ""

VideoSource(type, src) == [type |-> type, src |-> src]

\* ------------------------------------------------------------------------
\* PodResolutionsPlugin
\* ------------------------------------------------------------------------
Entry(id, height, selected) == [id |-> id, height |-> height, selected |-> selected]

\* the comparator with the height test reversed
CompareAscending(a, b) ==
  IF a.id = AutoId THEN 1
  ELSE IF b.id = AutoId THEN -1
  ELSE IF a.height < b.height THEN -1
  ELSE IF a.height = b.height THEN 0
  ELSE 1

\* the comparator of _sort
Compare(a, b) ==
  IF a.id = AutoId THEN 1
  ELSE IF b.id = AutoId THEN -1
  ELSE IF a.height > b.height THEN -1
  ELSE IF a.height = b.height THEN 0
  ELSE 1

\* Array.prototype.sort is a stable sort: insertion of each element, in
\* order, after the last element it does not sort before.
RECURSIVE InsertSorted(_, _)
InsertSorted(s, p) ==
  IF s = <<>> THEN <<p>>
  ELSE IF Compare(p, s[Len(s)]) < 0
       THEN InsertSorted(SubSeq(s, 1, Len(s) - 1), p) \o <<s[Len(s)]>>
       ELSE s \o <<p>>

RECURSIVE SortFrom(_, _)
SortFrom(done, rest) ==
  IF rest = <<>> THEN done
  ELSE SortFrom(InsertSorted(done, Head(rest)), Tail(rest))

SortResolutions(res) == SortFrom(<<>>, res)

\* currentSelection refers to an entry object: the model keeps what identifies it
Ref(r) == [id |-> r.id, height |-> r.height]

\* getSelected(): find((r) => r.id === this.autoResolutionChosenId)
GetSelectedIn(res, autoId) ==
  IF autoId = None THEN None ELSE FindById(res, autoId[1])

RefOf(found) == IF found = None THEN None ELSE Some(Ref(found[1]))

\* add replacing the list by the given entries
RegistryAddReplacing(batch) ==
  /\ resolutions' = SortResolutions(batch)
  /\ currentSelection' = RefOf(GetSelectedIn(batch, autoResolutionChosenId))
  /\ UNCHANGED autoResolutionChosenId

\* add(resolutions): push each, currentSelection = getSelected(), _sort(), trigger
RegistryAdd(batch) ==
  /\ resolutions' = SortResolutions(resolutions \o batch)
  /\ currentSelection' = RefOf(GetSelectedIn(resolutions \o batch, autoResolutionChosenId))
  /\ UNCHANGED autoResolutionChosenId

RegistryAddCalls == <<"trigger:resolutions-added">>

\* remove taking its argument for a position in the list
RegistryRemoveAtIndex(id) ==
  /\ resolutions' = RemoveIndex(resolutions, id)
  /\ UNCHANGED <<currentSelection, autoResolutionChosenId>>

\* remove(resolutionIndex): filter by id, trigger
RegistryRemove(id) ==
  /\ resolutions' = WithoutId(resolutions, id)
  /\ UNCHANGED <<currentSelection, autoResolutionChosenId>>

RegistryRemoveCalls == <<"trigger:resolutions-removed">>

\* select({id, autoResolutionChosenId, fireCallback})
SelectShortCircuits(id, autoId) ==
  /\ currentSelection # None
  /\ currentSelection[1].id = id
  /\ autoResolutionChosenId = Some(autoId)

RECURSIVE LastMatch(_, _)
LastMatch(s, id) ==
  IF s = <<>> THEN None
  ELSE IF s[Len(s)].id = id THEN Some(s[Len(s)])
       ELSE LastMatch(SubSeq(s, 1, Len(s) - 1), id)

\* select setting the flag of the matching entry and leaving the other flags
RegistrySelectKeepsOthers(id, autoId) ==
  IF SelectShortCircuits(id, autoId)
  THEN UNCHANGED registryVars
  ELSE LET marked == [k \in 1..Len(resolutions) |->
                        [resolutions[k] EXCEPT
                           !.selected = (@ \/ resolutions[k].id = id)]]
           hit == LastMatch(marked, id)
       IN /\ autoResolutionChosenId' = Some(autoId)
          /\ resolutions' = marked
          /\ currentSelection' = IF hit = None THEN currentSelection ELSE RefOf(hit)

RegistrySelect(id, autoId) ==
  IF SelectShortCircuits(id, autoId)
  THEN UNCHANGED registryVars
  ELSE LET marked == [k \in 1..Len(resolutions) |->
                        [resolutions[k] EXCEPT !.selected = (resolutions[k].id = id)]]
           hit == LastMatch(marked, id)
       IN /\ autoResolutionChosenId' = Some(autoId)
          /\ resolutions' = marked
          /\ currentSelection' = IF hit = None THEN currentSelection ELSE RefOf(hit)

RECURSIVE CallbackCalls(_, _)
CallbackCalls(s, id) ==
  IF s = <<>> THEN <<>>
  ELSE (IF Head(s).id = id THEN <<"selectCallback">> ELSE <<>>) \o CallbackCalls(Tail(s), id)

RegistrySelectCalls(id, autoId, fireCallback) ==
  IF SelectShortCircuits(id, autoId) THEN <<>>
  ELSE (IF fireCallback THEN CallbackCalls(resolutions, id) ELSE <<>>)
       \o <<"trigger:resolutions-changed">>

\* ------------------------------------------------------------------------
\* hls.js engine, as far as Html5Hlsjs uses it
\* ------------------------------------------------------------------------
\* the levels of a parsed manifest with n renditions (hls.js gives each the id 0)
Manifest(n) == [i \in 1..n |-> [id |-> 0, height |-> 360 * i]]

\* hls.destroy(): listeners removed, levels and level selection reset
HlsDestroy ==
  /\ hlsDestroyed' = TRUE
  /\ hlsLevels' = <<>>
  /\ loadLevel' = -1
  /\ fragLoadedOnce' = FALSE
  /\ manualLevel' = -1

\* hls.levels.filter((l) => l.id > -1).length
NonAutoLevelCount == Cardinality({k \in 1..Len(hlsLevels) : hlsLevels[k].id > -1})

\* ------------------------------------------------------------------------
\* Html5Hlsjs: the error-recovery policy
\* ------------------------------------------------------------------------
NoEffect ==
  /\ calls' = <<>>
  /\ UNCHANGED <<hlsVars, timers, techError, techErrors, registryVars>>

\* _removeQuality(index): hls.removeLevel, registry remove, hls.currentLevel = -1
RemoveQuality(index) ==
  /\ hlsLevels' = RemoveIndex(hlsLevels, index)
  /\ loadLevel' = IF index = loadLevel THEN -1
                  ELSE IF index \in 0..(loadLevel - 1) THEN loadLevel - 1
                  ELSE loadLevel
  /\ RegistryRemove(index)
  /\ manualLevel' = -1
  /\ calls' = <<"hls.removeLevel">> \o RegistryRemoveCalls \o <<"hls.currentLevel=-1">>
  /\ UNCHANGED <<hlsDestroyed, fragLoadedOnce, timers, techError, techErrors>>

\* _handleUnrecovarableError(error)
HandleUnrecovarableError ==
  IF NonAutoLevelCount > 1
  THEN RemoveQuality(loadLevel)
  ELSE /\ HlsDestroy
       /\ techError' = TRUE
       /\ techErrors' = techErrors + 1
       /\ calls' = <<"hls.destroy", "tech.trigger:error">>
       /\ UNCHANGED <<timers, registryVars>>

\* _handleMediaError escalating one occurrence too early
HandleMediaErrorEarly(count) ==
  IF count = 1
  THEN /\ calls' = <<"hls.recoverMediaError">>
       /\ UNCHANGED <<hlsVars, timers, techError, techErrors, registryVars>>
  ELSE IF count > 1
  THEN HandleUnrecovarableError
  ELSE NoEffect

\* _handleMediaError(error), count being this.errorCounts[MEDIA_ERROR]
HandleMediaError(count) ==
  IF count = 1
  THEN /\ calls' = <<"hls.recoverMediaError">>
       /\ UNCHANGED <<hlsVars, timers, techError, techErrors, registryVars>>
  ELSE IF count = 2
  THEN /\ calls' = <<"hls.swapAudioCodec", "hls.recoverMediaError">>
       /\ UNCHANGED <<hlsVars, timers, techError, techErrors, registryVars>>
  ELSE IF count > 2
  THEN HandleUnrecovarableError
  ELSE NoEffect

\* the retry branch whose FRAG_LOADED listener does not reach the engine
ScheduleRetryNoReset ==
  /\ timers' = timers + 1
  /\ calls' = <<"setTimeout", "hls.once:FRAG_LOADED">>
  /\ UNCHANGED <<hlsLevels, loadLevel, manualLevel, hlsDestroyed, fragLoadedOnce>>
  /\ UNCHANGED <<techError, techErrors, registryVars>>

\* the retry branch of _handleNetworkError: setTimeout and hls.once(FRAG_LOADED).
\* Every listener registered here is the same assignment, and the next
\* FRAG_LOADED runs and removes all of them: the model keeps whether there
\* are any, not how many.
ScheduleRetry ==
  /\ timers' = timers + 1
  /\ fragLoadedOnce' = TRUE
  /\ calls' = <<"setTimeout", "hls.once:FRAG_LOADED">>
  /\ UNCHANGED <<hlsLevels, loadLevel, manualLevel, hlsDestroyed>>
  /\ UNCHANGED <<techError, techErrors, registryVars>>

\* _handleNetworkError comparing with < instead of <=
HandleNetworkErrorStrict(count) ==
  IF ~onLine
  THEN NoEffect
  ELSE IF count < maxNetworkErrorRecovery
  THEN ScheduleRetry
  ELSE HandleUnrecovarableError

\* _handleNetworkError without the navigator.onLine test
HandleNetworkErrorNoOnlineTest(count) ==
  IF count <= maxNetworkErrorRecovery
  THEN ScheduleRetry
  ELSE HandleUnrecovarableError

\* _handleNetworkError(error), count being this.errorCounts[NETWORK_ERROR]
HandleNetworkError(count) ==
  IF ~onLine
  THEN NoEffect
  ELSE IF count <= maxNetworkErrorRecovery
  THEN ScheduleRetry
  ELSE HandleUnrecovarableError

\* the ghost netRun: the number of network-error events, all of them arrived
\* online, since construction or the last FRAG_LOADED; -1 once one of them
\* arrived offline, until a FRAG_LOADED that follows a scheduled retry.
NetRunAfterError(type) ==
  IF type # NETWORK_ERROR THEN netRun
  ELSE IF ~onLine \/ netRun = -1 THEN -1
  ELSE netRun + 1

NetRunAfterFragLoaded == IF netRun >= 0 \/ retryScheduled THEN 0 ELSE -1

\* the ghost mediaRun: the number of fatal media-error events (detail other
\* than manifestIncompatibleCodecsError) since construction; -1 once another
\* media-error event (non-fatal, or with that detail) arrived.
MediaRunAfterError(type, fatal, details) ==
  IF type # MEDIA_ERROR THEN mediaRun
  ELSE IF ~fatal \/ details = IncompatibleCodecs \/ mediaRun = -1 THEN -1
  ELSE mediaRun + 1

\* _onError sending every fatal media error to the media ladder
OnErrorAnyMediaDetail(type, fatal, details) ==
  /\ ~hlsDestroyed
  /\ errorCounts' = [errorCounts EXCEPT ![type] = @ + 1]
  /\ IF type = NETWORK_ERROR
     THEN HandleNetworkError(errorCounts[type] + 1)
     ELSE IF fatal /\ type = MEDIA_ERROR
     THEN HandleMediaError(errorCounts[type] + 1)
     ELSE IF fatal
     THEN HandleUnrecovarableError
     ELSE NoEffect
  /\ netRun' = NetRunAfterError(type)
  /\ mediaRun' = MediaRunAfterError(type, fatal, details)
  /\ retryScheduled' = (retryScheduled \/ timers' > timers)
  /\ UNCHANGED <<resetSeen, liveReported>>
  /\ UNCHANGED <<maxNetworkErrorRecovery, isLive, metadata, disposed, onLine>>
  /\ UNCHANGED handlerVars

\* _onError(_event, data)
OnError(type, fatal, details) ==
  /\ ~hlsDestroyed
  /\ errorCounts' = [errorCounts EXCEPT ![type] = @ + 1]
  /\ IF type = NETWORK_ERROR
     THEN HandleNetworkError(errorCounts[type] + 1)
     ELSE IF fatal /\ type = MEDIA_ERROR /\ details # IncompatibleCodecs
     THEN HandleMediaError(errorCounts[type] + 1)
     ELSE IF fatal
     THEN HandleUnrecovarableError
     ELSE NoEffect
  /\ netRun' = NetRunAfterError(type)
  /\ mediaRun' = MediaRunAfterError(type, fatal, details)
  /\ retryScheduled' = (retryScheduled \/ timers' > timers)
  /\ UNCHANGED <<resetSeen, liveReported>>
  /\ UNCHANGED <<maxNetworkErrorRecovery, isLive, metadata, disposed, onLine>>
  /\ UNCHANGED handlerVars

\* handlers.error, the "error" listener of the video element
VideoElementError(code) ==
  /\ ~disposed
  /\ IF code = MEDIA_ERR_DECODE
     THEN HandleMediaError(errorCounts[MEDIA_ERROR])
     ELSE NoEffect
  /\ UNCHANGED <<errorCounts, maxNetworkErrorRecovery, isLive, metadata, disposed, onLine>>
  /\ UNCHANGED <<handlerVars, runVars>>

\* the callback of setTimeout(() => this.hls.startLoad(), 1000)
RetryTimerFires ==
  /\ timers > 0
  /\ timers' = timers - 1
  /\ calls' = <<"hls.startLoad">>
  /\ UNCHANGED <<hlsVars, errorCounts, maxNetworkErrorRecovery, isLive, metadata, disposed>>
  /\ UNCHANGED <<hostVars, registryVars, handlerVars, runVars>>

\* the hls.once(FRAG_LOADED) listeners of _handleNetworkError
OnFragLoaded ==
  /\ ~hlsDestroyed
  /\ Len(hlsLevels) > 0
  /\ errorCounts' = IF fragLoadedOnce
                    THEN [errorCounts EXCEPT ![NETWORK_ERROR] = 0]
                    ELSE errorCounts
  /\ fragLoadedOnce' = FALSE
  /\ calls' = <<>>
  /\ netRun' = NetRunAfterFragLoaded
  /\ retryScheduled' = FALSE
  /\ resetSeen' = (resetSeen \/ retryScheduled)
  /\ UNCHANGED <<hlsLevels, loadLevel, manualLevel, hlsDestroyed>>
  /\ UNCHANGED <<maxNetworkErrorRecovery, isLive, metadata, timers, disposed>>
  /\ UNCHANGED <<hostVars, registryVars, handlerVars, mediaRun, liveReported>>

\* the LEVEL_LOADED listener without the raise of the ceiling
OnLevelLoadedNoRaise(live) ==
  /\ ~hlsDestroyed
  /\ Len(hlsLevels) > 0
  /\ isLive' = Some(live)
  /\ calls' = <<>>
  /\ liveReported' = (liveReported \/ live)
  /\ UNCHANGED <<hlsVars, errorCounts, maxNetworkErrorRecovery, metadata, timers, disposed>>
  /\ UNCHANGED <<hostVars, registryVars, handlerVars>>
  /\ UNCHANGED <<netRun, mediaRun, retryScheduled, resetSeen>>

\* the LEVEL_LOADED listener of _initHlsjs
OnLevelLoaded(live) ==
  /\ ~hlsDestroyed
  /\ Len(hlsLevels) > 0
  /\ isLive' = Some(live)
  /\ maxNetworkErrorRecovery' =
       IF live THEN LiveMaxNetworkErrorRecovery ELSE maxNetworkErrorRecovery
  /\ calls' = <<>>
  /\ liveReported' = (liveReported \/ live)
  /\ UNCHANGED <<hlsVars, errorCounts, metadata, timers, disposed>>
  /\ UNCHANGED <<hostVars, registryVars, handlerVars>>
  /\ UNCHANGED <<netRun, mediaRun, retryScheduled, resetSeen>>

\* _notifyVideoQualities(): one entry per level of the manifest, then Auto
RECURSIVE LevelEntries(_, _)
LevelEntries(levels, index) ==
  IF levels = <<>> THEN <<>>
  ELSE <<Entry(index, Head(levels).height, Head(levels).id = manualLevel)>>
       \o LevelEntries(Tail(levels), index + 1)

VideoQualities(levels) == LevelEntries(levels, 0) \o <<Entry(AutoId, 0, TRUE)>>

\* _onMetaData, the MANIFEST_PARSED listener
OnManifestParsed(n) ==
  /\ ~hlsDestroyed
  /\ metadata = None
  /\ metadata' = Some(Manifest(n))
  /\ hlsLevels' = Manifest(n)
  /\ IF srOptions
     THEN /\ RegistryAdd(VideoQualities(Manifest(n)))
          /\ calls' = RegistryAddCalls
          /\ UNCHANGED errorCounts
     ELSE \* buildLevelLabel reads player.srOptions_.levelLabelHandler of an
          \* undefined srOptions_: the listener throws before add, and hls.js
          \* reports the exception as a non-fatal error of type otherError
          /\ UNCHANGED registryVars
          /\ calls' = <<"throw:TypeError">>
          /\ errorCounts' = [errorCounts EXCEPT ![OTHER_ERROR] = @ + 1]
  /\ UNCHANGED <<loadLevel, manualLevel, hlsDestroyed, fragLoadedOnce>>
  /\ changePhase' = "none"
  /\ UNCHANGED <<maxNetworkErrorRecovery, isLive, timers, disposed>>
  /\ UNCHANGED <<alreadyRegistered, registrations, pluginLive, srOptions, hlsProvider>>
  /\ UNCHANGED <<source, orphanEngines, refused>>
  /\ UNCHANGED <<hostVars, runVars>>
  /\ UNCHANGED hlsjsTechVars

\* the LEVEL_SWITCHING listener of _initHlsjs; the engine is loading `level`
OnLevelSwitching(level) ==
  /\ ~hlsDestroyed
  /\ level \in 0..(Len(hlsLevels) - 1)
  /\ manualLevel \in {-1, level}
  /\ loadLevel' = level
  /\ LET autoLevelEnabled == manualLevel = -1
         resolutionId == IF autoLevelEnabled THEN -1 ELSE level
         chosenId == IF autoLevelEnabled THEN level ELSE -1
     IN /\ RegistrySelect(resolutionId, chosenId)
        /\ calls' = RegistrySelectCalls(resolutionId, chosenId, FALSE)
  /\ UNCHANGED <<hlsLevels, manualLevel, hlsDestroyed, fragLoadedOnce>>
  /\ UNCHANGED <<providerVars, hostVars, handlerVars, runVars>>

\* an entry's selectCallback, invoked by the host's quality menu:
\* this.hls.currentLevel = index (-1 for the automatic entry)
SelectCallback(index) ==
  /\ ~hlsDestroyed
  /\ FindById(resolutions, index) # None
  /\ index \in -1..(Len(hlsLevels) - 1)
  /\ manualLevel' = index
  /\ calls' = <<"selectCallback">>
  /\ UNCHANGED <<hlsLevels, loadLevel, hlsDestroyed, fragLoadedOnce>>
  /\ UNCHANGED <<providerVars, hostVars, registryVars, handlerVars, runVars>>

\* dispose()
Dispose ==
  /\ ~disposed
  /\ disposed' = TRUE
  /\ HlsDestroy
  /\ calls' = <<"hls.destroy">>
  /\ UNCHANGED <<errorCounts, maxNetworkErrorRecovery, isLive, metadata, timers>>
  /\ UNCHANGED <<hostVars, registryVars, handlerVars, runVars>>

\* navigator.onLine changes
ConnectivityChanges ==
  /\ onLine' = ~onLine
  /\ calls' = <<>>
  /\ UNCHANGED <<hlsVars, providerVars, techError, techErrors, registryVars>>
  /\ UNCHANGED <<handlerVars, runVars>>

\* ------------------------------------------------------------------------
\* One playback session of one provider: the plugin was constructed with
\* options, the handler is registered and handleSource has created the provider
\* ------------------------------------------------------------------------
\* the Hlsjs tech after its constructor: initHls_() has created the engine
\* and added the tech's 'error' listener to the video element
TechInit ==
  /\ techHlsDestroyed = FALSE
  /\ techErrorCode = None
  /\ techErrorEvents = 0
  /\ attachedListeners = 0
  /\ elementErrorListeners = 1

Init ==
  /\ TechInit
  /\ hlsLevels = <<>>
  /\ loadLevel = -1
  /\ manualLevel = -1
  /\ hlsDestroyed = FALSE
  /\ fragLoadedOnce = FALSE
  /\ errorCounts = [t \in ErrorTypes |-> 0]
  /\ maxNetworkErrorRecovery = DefaultMaxNetworkErrorRecovery
  /\ isLive = None
  /\ metadata = None
  /\ timers = 0
  /\ disposed = FALSE
  /\ onLine = TRUE
  /\ techError = FALSE
  /\ techErrors = 0
  /\ resolutions = <<>>
  /\ currentSelection = None
  /\ autoResolutionChosenId = None
  /\ calls = <<>>
  /\ netRun = 0
  /\ mediaRun = 0
  /\ retryScheduled = FALSE
  /\ resetSeen = FALSE
  /\ liveReported = FALSE
  /\ alreadyRegistered = TRUE
  /\ registrations = 1
  /\ pluginLive = TRUE
  /\ srOptions = TRUE
  /\ hlsProvider = TRUE
  /\ source = Some(VideoSource(Some(MpegUrlType), Some(M3u8Src)))
  /\ orphanEngines = 0
  /\ refused = FALSE
  /\ changePhase = "none"

MaxErrors(type) ==
  IF type = NETWORK_ERROR THEN MaxNetworkErrors
  ELSE IF type = MEDIA_ERROR THEN MaxMediaErrors
  ELSE MaxOtherErrors

\* an error event that schedules a retry needs a free timer slot of the model
TimerSlot(type) ==
  (type = NETWORK_ERROR /\ onLine /\ errorCounts[type] < maxNetworkErrorRecovery)
    => timers < MaxTimers

\* data.details is read for media errors only
DetailsOf(type) == IF type = MEDIA_ERROR THEN ErrorDetails ELSE {"otherDetail"}

ErrorEvent ==
  \E type \in ErrorTypes, fatal \in BOOLEAN :
   \E details \in DetailsOf(type) :
    /\ errorCounts[type] < MaxErrors(type)
    /\ TimerSlot(type)
    /\ OnError(type, fatal, details)

MediaElementErrorEvent ==
  \E code \in 1..4 :
    /\ techErrors < MaxTechErrors
    /\ VideoElementError(code)

ManifestParsedEvent == \E n \in 1..MaxLevels : OnManifestParsed(n)

LevelSwitchingEvent == \E level \in 0..(MaxLevels - 1) : OnLevelSwitching(level)

LevelLoadedEvent == \E live \in BOOLEAN : OnLevelLoaded(live)

\* A session of a stream of up to MaxLevels renditions, with engine errors of
\* every classification. LEVEL_LOADED, whose listener changes nothing but the
\* live flag and the network ceiling, is part of NetworkNext.
Next ==
  \/ ManifestParsedEvent
  \/ LevelSwitchingEvent
  \/ OnFragLoaded
  \/ ErrorEvent
  \/ MediaElementErrorEvent
  \/ RetryTimerFires
  \/ Dispose
  \/ ConnectivityChanges

Spec == Init /\ [][Next]_vars

\* ------------------------------------------------------------------------
\* A session, live or not, whose engine errors are network errors
\* ------------------------------------------------------------------------
NetworkErrorEvent ==
  \E fatal \in BOOLEAN :
    /\ errorCounts[NETWORK_ERROR] < MaxLiveNetworkErrors
    /\ TimerSlot(NETWORK_ERROR)
    /\ OnError(NETWORK_ERROR, fatal, "otherDetail")

NetworkNext ==
  \/ ManifestParsedEvent
  \/ LevelSwitchingEvent
  \/ LevelLoadedEvent
  \/ OnFragLoaded
  \/ NetworkErrorEvent
  \/ RetryTimerFires
  \/ ConnectivityChanges

SpecNetwork == Init /\ [][NetworkNext]_vars

\* ------------------------------------------------------------------------
\* A session of a stream of up to MaxFallbackLevels renditions whose engine
\* errors are media errors and errors of other classifications
\* ------------------------------------------------------------------------
FallbackManifestParsedEvent == \E n \in 1..MaxFallbackLevels : OnManifestParsed(n)

FallbackLevelSwitchingEvent ==
  \E level \in 0..(MaxFallbackLevels - 1) : OnLevelSwitching(level)

FallbackErrorEvent ==
  \E type \in {MEDIA_ERROR, OTHER_ERROR}, fatal \in BOOLEAN :
   \E details \in DetailsOf(type) :
    /\ errorCounts[type] < MaxErrors(type)
    /\ OnError(type, fatal, details)

FallbackNext ==
  \/ FallbackManifestParsedEvent
  \/ FallbackLevelSwitchingEvent
  \/ FallbackErrorEvent
  \/ MediaElementErrorEvent
  \/ Dispose

SpecFallback == Init /\ [][FallbackNext]_vars

\* ------------------------------------------------------------------------
\* The life of the handler on one player and its tech: plugin constructions
\* and disposal, capability checks, sources handled one after the other,
\* each ended or not by a fatal error of the engine
\* ------------------------------------------------------------------------
\* registerSourceHandler without its alreadyRegistered test
RegisterSourceHandlerUnguarded(supported, html5) ==
  IF ~supported
  THEN /\ calls' = <<"console.log">>
       /\ refused' = TRUE
       /\ UNCHANGED <<alreadyRegistered, registrations>>
  ELSE IF ~html5
  THEN /\ calls' = <<"console.error">>
       /\ refused' = TRUE
       /\ UNCHANGED <<alreadyRegistered, registrations>>
  ELSE /\ alreadyRegistered' = TRUE
       /\ registrations' = registrations + 1
       /\ calls' = <<"html5.registerSourceHandler">>
       /\ UNCHANGED refused

\* registerSourceHandler(vjs); supported is Hls.isSupported(), html5 is
\* whether vjs.getTech("Html5") returns a tech
RegisterSourceHandler(supported, html5) ==
  IF ~supported
  THEN /\ calls' = <<"console.log">>
       /\ refused' = TRUE
       /\ UNCHANGED <<alreadyRegistered, registrations>>
  ELSE IF ~html5
  THEN /\ calls' = <<"console.error">>
       /\ refused' = TRUE
       /\ UNCHANGED <<alreadyRegistered, registrations>>
  ELSE IF alreadyRegistered
  THEN /\ calls' = <<>>
       /\ UNCHANGED <<alreadyRegistered, registrations, refused>>
  ELSE /\ alreadyRegistered' = TRUE
       /\ registrations' = registrations + 1
       /\ calls' = <<"html5.registerSourceHandler">>
       /\ UNCHANGED refused

\* new HLSJSConfigHandler(player, options), on this player (own) or on another
\* player of the page; video.js keeps one instance of a plugin per player
PluginConstructed(own, options, supported, html5) ==
  /\ own => ~pluginLive
  /\ pluginLive' = (pluginLive \/ own)
  /\ IF ~options
     THEN /\ calls' = <<>>
          /\ UNCHANGED <<srOptions, alreadyRegistered, registrations, refused>>
     ELSE /\ srOptions' = (srOptions \/ own)
          /\ RegisterSourceHandler(supported, html5)
  /\ UNCHANGED <<hlsVars, providerVars, hostVars, registryVars, runVars>>
  /\ UNCHANGED <<hlsProvider, source, orphanEngines, changePhase>>
  /\ UNCHANGED hlsjsTechVars

\* HLSJSConfigHandler.dispose()
PluginDispose ==
  /\ pluginLive
  /\ pluginLive' = FALSE
  /\ srOptions' = FALSE
  /\ IF hlsProvider
     THEN /\ disposed' = TRUE
          /\ HlsDestroy
          /\ calls' = <<"hls.destroy">>
     ELSE /\ calls' = <<>>
          /\ UNCHANGED <<hlsVars, disposed>>
  /\ hlsProvider' = FALSE
  /\ UNCHANGED <<errorCounts, maxNetworkErrorRecovery, isLive, metadata, timers>>
  /\ UNCHANGED <<hostVars, registryVars, runVars>>
  /\ UNCHANGED <<alreadyRegistered, registrations, source, orphanEngines>>
  /\ UNCHANGED <<refused, changePhase>>
  /\ UNCHANGED hlsjsTechVars

\* the field initialisers and the constructor of Html5Hlsjs, with _initHlsjs
NewProvider(src) ==
  /\ source' = Some(src)
  /\ hlsLevels' = <<>>
  /\ loadLevel' = -1
  /\ manualLevel' = -1
  /\ hlsDestroyed' = FALSE
  /\ fragLoadedOnce' = FALSE
  /\ errorCounts' = [t \in ErrorTypes |-> 0]
  /\ maxNetworkErrorRecovery' = DefaultMaxNetworkErrorRecovery
  /\ isLive' = None
  /\ metadata' = None
  /\ disposed' = FALSE
  /\ netRun' = 0
  /\ mediaRun' = 0
  /\ retryScheduled' = FALSE
  /\ resetSeen' = FALSE
  /\ liveReported' = FALSE

NewProviderCalls == <<"new Hls", "hls.attachMedia", "hls.loadSource">>

\* handleSource replacing tech.hlsProvider without disposing of it
HandleSourceNoDispose(src) ==
  /\ registrations > 0
  /\ CanHandleSource(src) # ""
  /\ orphanEngines' = orphanEngines + (IF ~hlsDestroyed THEN 1 ELSE 0)
  /\ hlsProvider' = TRUE
  /\ NewProvider(src)
  /\ calls' = NewProviderCalls
  /\ changePhase' = IF changePhase = "changed" THEN "sourced" ELSE "none"
  /\ UNCHANGED <<timers, hostVars, registryVars>>
  /\ UNCHANGED <<alreadyRegistered, registrations, pluginLive, srOptions, refused>>
  /\ UNCHANGED hlsjsTechVars

\* handleSource(source, tech); the tech calls it for a source the capability
\* check accepted. An engine the call leaves live without a provider on the
\* tech is counted in orphanEngines. The ghost changePhase is "changed" after
\* a video-change event, "sourced" once handleSource has followed it, "none"
\* after any other handleSource and after any manifest-parsed event.
HandleSource(src) ==
  /\ registrations > 0
  /\ CanHandleSource(src) # ""
  /\ orphanEngines' = orphanEngines + (IF ~hlsProvider /\ ~hlsDestroyed THEN 1 ELSE 0)
  /\ hlsProvider' = TRUE
  /\ NewProvider(src)
  /\ calls' = (IF hlsProvider THEN <<"hls.destroy">> ELSE <<>>) \o NewProviderCalls
  /\ changePhase' = IF changePhase = "changed" THEN "sourced" ELSE "none"
  /\ UNCHANGED <<timers, hostVars, registryVars>>
  /\ UNCHANGED <<alreadyRegistered, registrations, pluginLive, srOptions, refused>>
  /\ UNCHANGED hlsjsTechVars

\* the tech asks the registered handler whether it can handle a source; the
\* call is observed with its argument and its result
CanHandleSourceCall(src) ==
  /\ registrations > 0
  /\ calls' = <<"canHandleSource", src, CanHandleSource(src)>>
  /\ UNCHANGED <<hlsVars, providerVars, hostVars, registryVars, runVars>>
  /\ UNCHANGED <<alreadyRegistered, registrations, pluginLive, srOptions, hlsProvider>>
  /\ UNCHANGED <<source, orphanEngines, refused, changePhase>>
  /\ UNCHANGED hlsjsTechVars

\* the "video-change" listener of the PodResolutionsPlugin constructor: a
\* function expression, which the player calls with itself as `this`, so the
\* assignment makes a resolutions property of the player and the notification
\* is the player's
VideoChange ==
  /\ calls' = <<"player.resolutions=[]", "player.trigger:resolutions-removed">>
  /\ changePhase' = "changed"
  /\ UNCHANGED <<hlsVars, providerVars, hostVars, registryVars, runVars>>
  /\ UNCHANGED <<alreadyRegistered, registrations, pluginLive, srOptions, hlsProvider>>
  /\ UNCHANGED <<source, orphanEngines, refused>>
  /\ UNCHANGED hlsjsTechVars

\* the page is loaded: nothing is registered, the tech has no provider
LifecycleInit ==
  /\ TechInit
  /\ hlsLevels = <<>>
  /\ loadLevel = -1
  /\ manualLevel = -1
  /\ hlsDestroyed = TRUE
  /\ fragLoadedOnce = FALSE
  /\ errorCounts = [t \in ErrorTypes |-> 0]
  /\ maxNetworkErrorRecovery = DefaultMaxNetworkErrorRecovery
  /\ isLive = None
  /\ metadata = None
  /\ timers = 0
  /\ disposed = TRUE
  /\ onLine = TRUE
  /\ techError = FALSE
  /\ techErrors = 0
  /\ resolutions = <<>>
  /\ currentSelection = None
  /\ autoResolutionChosenId = None
  /\ calls = <<>>
  /\ netRun = 0
  /\ mediaRun = 0
  /\ retryScheduled = FALSE
  /\ resetSeen = FALSE
  /\ liveReported = FALSE
  /\ alreadyRegistered = FALSE
  /\ registrations = 0
  /\ pluginLive = FALSE
  /\ srOptions = FALSE
  /\ hlsProvider = FALSE
  /\ source = None
  /\ orphanEngines = 0
  /\ refused = FALSE
  /\ changePhase = "none"

VideoSources ==
  { VideoSource(Some(MpegUrlType), Some(M3u8Src)),
    VideoSource(Some(AppleTypeUpperCase), Some(Mp4Src)),
    VideoSource(None, Some(M3u8SrcUpperCase)),
    VideoSource(Some(Mp4Type), Some(Mp4Src)) }

PluginConstructedEvent ==
  \E own \in BOOLEAN, options \in BOOLEAN, supported \in BOOLEAN, html5 \in BOOLEAN :
    PluginConstructed(own, options, supported, html5)

CanHandleSourceEvent == \E src \in VideoSources : CanHandleSourceCall(src)

HandleSourceEvent == \E src \in VideoSources : HandleSource(src)

LifecycleErrorEvent ==
  /\ errorCounts[OTHER_ERROR] < MaxOtherErrors
  /\ techErrors < MaxTechErrors
  /\ OnError(OTHER_ERROR, TRUE, "otherDetail")

LifecycleNext ==
  \/ PluginConstructedEvent
  \/ PluginDispose
  \/ CanHandleSourceEvent
  \/ HandleSourceEvent
  \/ LifecycleErrorEvent

SpecLifecycle == LifecycleInit /\ [][LifecycleNext]_vars

\* ------------------------------------------------------------------------
\* One player whose media source changes: the handler is registered and the
\* sources are handled one after the other, each with its own provider
\* ------------------------------------------------------------------------
\* the registry grows with every source: the model stops at MaxRegistry entries
SourceManifestParsedEvent ==
  \E n \in 1..MaxLevels :
    /\ Len(resolutions) + n + 1 <= MaxRegistry
    /\ OnManifestParsed(n)

SourcesNext ==
  \/ HandleSourceEvent
  \/ PluginDispose
  \/ VideoChange
  \/ SourceManifestParsedEvent
  \/ LevelSwitchingEvent

SpecSources == Init /\ [][SourcesNext]_vars

\* ------------------------------------------------------------------------
\* The registry alone, under any calls of add, remove and select
\* ------------------------------------------------------------------------
\* the registry compares ids for equality only: two level ids and the
\* automatic id give every case of a match, of no match and of a duplicate
RegLevelIds == {0, 1}
RegIds == {AutoId} \cup RegLevelIds
RegHeights == {720, 1080}
RegEntries ==
  {Entry(AutoId, 0, TRUE)}
    \cup {Entry(id, h, FALSE) : id \in RegLevelIds, h \in RegHeights}
RegBatches ==
  {<<e>> : e \in RegEntries} \cup {<<e, f>> : e \in RegEntries, f \in RegEntries}

RegUnchanged ==
  /\ UNCHANGED <<hlsVars, providerVars, hostVars, handlerVars, runVars>>

\* add(resolutions)
AddCall ==
  \E batch \in RegBatches :
    /\ Len(resolutions) + Len(batch) <= MaxResolutions
    /\ RegistryAdd(batch)
    /\ calls' = RegistryAddCalls
    /\ RegUnchanged

\* remove(resolutionIndex)
RemoveCall ==
  \E id \in RegIds :
    /\ RegistryRemove(id)
    /\ calls' = RegistryRemoveCalls
    /\ RegUnchanged

\* select(options)
SelectCall ==
  \E id \in RegIds, autoId \in RegIds, fireCallback \in BOOLEAN :
    /\ RegistrySelect(id, autoId)
    /\ calls' = RegistrySelectCalls(id, autoId, fireCallback)
    /\ RegUnchanged

RegNext == AddCall \/ RemoveCall \/ SelectCall

RegSpec == Init /\ [][RegNext]_vars

\* ------------------------------------------------------------------------
\* A session with the host's quality menu: automatic and manual switching,
\* and the errors that take the unrecoverable path
\* ------------------------------------------------------------------------
SelectCallbackEvent == \E index \in -1..(MaxFallbackLevels - 1) : SelectCallback(index)

SwitchingNext ==
  \/ FallbackManifestParsedEvent
  \/ FallbackLevelSwitchingEvent
  \/ SelectCallbackEvent
  \/ FallbackErrorEvent

SpecSwitching == Init /\ [][SwitchingNext]_vars

\* ------------------------------------------------------------------------
\* A session in which the network keeps failing: the device stays online, the
\* provider is not disposed, no fragment loads, every retry timer fires and a
\* network error follows it (and follows every level removal)
\* ------------------------------------------------------------------------
\* the policy only compares the count with the ceiling, 30 at most: a count
\* above it is kept at 31, which the policy cannot tell from a larger one
SaturatedCount(count) ==
  IF count > LiveMaxNetworkErrorRecovery THEN LiveMaxNetworkErrorRecovery + 1 ELSE count

\* _onError for a network error, the counts kept within 0..31
OnNetworkErrorRepeated(fatal) ==
  /\ ~hlsDestroyed
  /\ errorCounts' = [errorCounts EXCEPT ![NETWORK_ERROR] = SaturatedCount(@ + 1)]
  /\ HandleNetworkError(errorCounts[NETWORK_ERROR] + 1)
  /\ netRun' = SaturatedCount(NetRunAfterError(NETWORK_ERROR))
  /\ retryScheduled' = (retryScheduled \/ timers' > timers)
  /\ UNCHANGED <<mediaRun, resetSeen, liveReported>>
  /\ UNCHANGED <<maxNetworkErrorRecovery, isLive, metadata, disposed, onLine>>
  /\ UNCHANGED handlerVars

RepeatedNetworkErrorEvent ==
  \E fatal \in BOOLEAN :
    /\ TimerSlot(NETWORK_ERROR)
    /\ OnNetworkErrorRepeated(fatal)

TerminationNext ==
  \/ FallbackManifestParsedEvent
  \/ FallbackLevelSwitchingEvent
  \/ RepeatedNetworkErrorEvent
  \/ RetryTimerFires

\* setTimeout callbacks run; the network error that follows is the
\* environment's, taken as given
SpecTermination ==
  /\ Init
  /\ [][TerminationNext]_vars
  /\ WF_vars(RetryTimerFires)
  /\ WF_vars(RepeatedNetworkErrorEvent)

\* ------------------------------------------------------------------------
\* The Hlsjs tech of dist/videojs-hlsjs.js: its error handling
\* ------------------------------------------------------------------------
MANIFEST_LOAD_ERROR == "manifestLoadError"
MANIFEST_LOAD_TIMEOUT == "manifestLoadTimeOut"
MANIFEST_PARSING_ERROR == "manifestParsingError"
AbortDetails == {MANIFEST_LOAD_ERROR, MANIFEST_LOAD_TIMEOUT, MANIFEST_PARSING_ERROR}
TechErrorDetails == AbortDetails \cup {"mediaErrorDecode", "otherDetail"}

\* nothing of the provider, the registry and the source handler is touched
TechFrame ==
  /\ UNCHANGED <<hlsVars, providerVars, hostVars, registryVars, runVars>>
  /\ UNCHANGED <<alreadyRegistered, registrations, pluginLive, srOptions, hlsProvider>>
  /\ UNCHANGED <<source, orphanEngines, refused, changePhase>>

\* this.hls_.destroy(); this.error = function() { return {code: 3}; };
\* this.trigger('error')
AbortPlayback ==
  /\ techHlsDestroyed' = TRUE
  /\ attachedListeners' = 0
  /\ techErrorCode' = Some(3)
  /\ techErrorEvents' = techErrorEvents + 1
  /\ calls' = <<"hls.destroy", "trigger:error">>
  /\ UNCHANGED elementErrorListeners

RecoverNetworkCalls == <<"hls.startLoad", "trigger:waiting">>
RecoverMediaCalls ==
  <<"hls.swapAudioCodec", "hls.recoverMediaError", "hls.on:MEDIA_ATTACHED", "trigger:waiting">>

\* onError_ aborting on the three manifest details only when the error is fatal
onError_AbortOnFatalOnly(type, fatal, details) ==
  /\ IF fatal /\ details \in AbortDetails
     THEN AbortPlayback
     ELSE IF fatal
     THEN CASE type = NETWORK_ERROR ->
                 /\ calls' = RecoverNetworkCalls
                 /\ UNCHANGED hlsjsTechVars
            [] type = MEDIA_ERROR ->
                 /\ calls' = RecoverMediaCalls
                 /\ attachedListeners' = attachedListeners + 1
                 /\ UNCHANGED <<techHlsDestroyed, techErrorCode, techErrorEvents>>
                 /\ UNCHANGED elementErrorListeners
            [] OTHER -> AbortPlayback
     ELSE /\ calls' = <<>>
          /\ UNCHANGED hlsjsTechVars
  /\ TechFrame

\* onError_(event, data)
onError_(type, fatal, details) ==
  /\ IF details \in AbortDetails
     THEN AbortPlayback
     ELSE IF fatal
     THEN CASE type = NETWORK_ERROR ->
                 /\ calls' = RecoverNetworkCalls
                 /\ UNCHANGED hlsjsTechVars
            [] type = MEDIA_ERROR ->
                 /\ calls' = RecoverMediaCalls
                 /\ attachedListeners' = attachedListeners + 1
                 /\ UNCHANGED <<techHlsDestroyed, techErrorCode, techErrorEvents>>
                 /\ UNCHANGED elementErrorListeners
            [] OTHER -> AbortPlayback
     ELSE /\ calls' = <<>>
          /\ UNCHANGED hlsjsTechVars
  /\ TechFrame

\* onMediaError_(event), event.currentTarget.error having the given code
onMediaError_(code) ==
  IF code = MEDIA_ERR_DECODE
  THEN onError_(MEDIA_ERROR, TRUE, "mediaErrorDecode")
  ELSE /\ calls' = <<>>
       /\ UNCHANGED hlsjsTechVars
       /\ TechFrame

\* the startLoad listeners of MEDIA_ATTACHED that the media branch added:
\* each calls this.hls_.startLoad() and removes itself
RECURSIVE StartLoadCalls(_)
StartLoadCalls(n) == IF n = 0 THEN <<>> ELSE <<"hls.startLoad">> \o StartLoadCalls(n - 1)

onMediaAttachedStartLoad ==
  /\ ~techHlsDestroyed
  /\ attachedListeners > 0
  /\ calls' = StartLoadCalls(attachedListeners)
  /\ attachedListeners' = 0
  /\ UNCHANGED <<techHlsDestroyed, techErrorCode, techErrorEvents, elementErrorListeners>>
  /\ TechFrame

\* setSrc(src): the engine is destroyed and initHls_() creates another one
\* and adds one more 'error' listener to the video element
setSrc ==
  /\ elementErrorListeners < MaxElementErrorListeners
  /\ techHlsDestroyed' = FALSE
  /\ attachedListeners' = 0
  /\ elementErrorListeners' = elementErrorListeners + 1
  /\ calls' = <<"hls.destroy", "new Hls", "hls.loadSource">>
  /\ UNCHANGED <<techErrorCode, techErrorEvents>>
  /\ TechFrame

\* the engine's ERROR event; a destroyed engine has no listener left
TechErrorEvent ==
  \E type \in ErrorTypes, fatal \in BOOLEAN, details \in TechErrorDetails :
    /\ ~techHlsDestroyed
    /\ onError_(type, fatal, details)
    /\ techErrorEvents' <= MaxTechErrorEvents
    /\ attachedListeners' <= MaxAttachedListeners

\* the 'error' event of the video element, whose listeners are never removed
TechMediaErrorEvent ==
  \E code \in 1..4 :
    /\ onMediaError_(code)
    /\ attachedListeners' <= MaxAttachedListeners

TechNext ==
  \/ TechErrorEvent
  \/ TechMediaErrorEvent
  \/ onMediaAttachedStartLoad
  \/ setSrc

SpecTech == Init /\ [][TechNext]_vars

\* ------------------------------------------------------------------------
\* Steps and outcomes the properties speak of
\* ------------------------------------------------------------------------
NetworkErrorStep == \E fatal \in BOOLEAN : OnError(NETWORK_ERROR, fatal, "otherDetail")

FatalMediaErrorStep == OnError(MEDIA_ERROR, TRUE, "otherDetail")

PolicyStep ==
  \/ \E type \in ErrorTypes, fatal \in BOOLEAN, details \in ErrorDetails :
       OnError(type, fatal, details)
  \/ \E code \in 1..4 : VideoElementError(code)

\* one retry is scheduled and nothing else happens
RetryOnly ==
  /\ timers' = timers + 1
  /\ calls' = <<"setTimeout", "hls.once:FRAG_LOADED">>
  /\ hlsLevels' = hlsLevels
  /\ resolutions' = resolutions
  /\ ~hlsDestroyed'
  /\ techErrors' = techErrors

FallbackCalls == <<"hls.removeLevel", "trigger:resolutions-removed", "hls.currentLevel=-1">>
TerminalCalls == <<"hls.destroy", "tech.trigger:error">>

\* the level-removal fallback is taken: no retry, no destroy, no error
LevelRemovalFallback ==
  /\ calls' = FallbackCalls
  /\ timers' = timers
  /\ manualLevel' = -1
  /\ ~hlsDestroyed'
  /\ techErrors' = techErrors

\* the session ends: engine destroyed, error surfaced to the host
TerminalEscalation ==
  /\ calls' = TerminalCalls
  /\ hlsDestroyed'
  /\ techError'
  /\ techErrors' = techErrors + 1

UnrecoverablePath ==
  IF NonAutoLevelCount > 1 THEN LevelRemovalFallback ELSE TerminalEscalation

\* ------------------------------------------------------------------------
\* Properties
\* ------------------------------------------------------------------------

\* C1: once the provider is disposed, no retry callback runs: hls.startLoad is
\* not called on the engine after dispose().
C1_NoRetryAfterDispose == disposed => ~Called("hls.startLoad")

\* C2: in a session never reported live, with the device online for every
\* network error and no fragment loaded in between, network errors 1 to 5
\* each schedule one retry and nothing else; the 6th, with more than one
\* quality level, schedules no retry and takes the level-removal fallback.
C2_NonLiveCeiling ==
  [][(NetworkErrorStep /\ onLine /\ ~liveReported /\ netRun' >= 1) =>
       /\ netRun' <= DefaultMaxNetworkErrorRecovery => RetryOnly
       /\ (netRun' = DefaultMaxNetworkErrorRecovery + 1 /\ NonAutoLevelCount > 1)
            => LevelRemovalFallback]_vars

C2_Witness ==
  /\ netRun = DefaultMaxNetworkErrorRecovery + 1
  /\ ~liveReported
  /\ calls = FallbackCalls
  /\ timers = 0

\* C3: once a LEVEL_LOADED event has reported the stream live the ceiling is
\* 30: with the device online and no fragment loaded in between, network
\* errors 1 to 30 each schedule a retry and do not escalate, and the 31st
\* takes the unrecoverable path.
C3_LiveCeiling ==
  /\ [](liveReported => maxNetworkErrorRecovery = LiveMaxNetworkErrorRecovery)
  /\ [][(NetworkErrorStep /\ onLine /\ liveReported /\ netRun' >= 1) =>
          /\ netRun' <= LiveMaxNetworkErrorRecovery => RetryOnly
          /\ netRun' = LiveMaxNetworkErrorRecovery + 1 => UnrecoverablePath]_vars

C3_Witness ==
  /\ netRun = LiveMaxNetworkErrorRecovery + 1
  /\ liveReported
  /\ calls \in {FallbackCalls, TerminalCalls}

\* C4: for the fatal media-error events of a session whose media-error events
\* are all fatal and none has the detail manifestIncompatibleCodecsError, the
\* 1st calls recoverMediaError only, the 2nd swapAudioCodec then
\* recoverMediaError, the 3rd and later ones take the unrecoverable path; with
\* a single quality level the session ends on the 3rd event and not before.
C4_MediaErrorLadder ==
  [][(FatalMediaErrorStep /\ mediaRun' >= 1) =>
       /\ mediaRun' = 1 =>
            (calls' = <<"hls.recoverMediaError">> /\ UNCHANGED <<hlsVars, techErrors, resolutions>>)
       /\ mediaRun' = 2 =>
            (calls' = <<"hls.swapAudioCodec", "hls.recoverMediaError">>
               /\ UNCHANGED <<hlsVars, techErrors, resolutions>>)
       /\ mediaRun' >= 3 => UnrecoverablePath
       /\ NonAutoLevelCount = 1 => (hlsDestroyed' <=> mediaRun' >= 3)]_vars

C4_Witness ==
  /\ mediaRun = 3
  /\ metadata = Some(Manifest(1))
  /\ calls = TerminalCalls
  /\ techErrors = 1

\* the heights of the quality levels a list of registry entries describes
LevelHeights(res) == {res[k].height : k \in {i \in 1..Len(res) : res[i].id # AutoId}}

\* C5: on the unrecoverable path with more than one non-automatic level, the
\* level being loaded is removed from the engine and its entry, and no other,
\* from the registry, the engine is put in automatic selection, it is not
\* destroyed and no error is surfaced; otherwise the session ends.
C5_FallbackRemovesActiveLevel ==
  [][(PolicyStep /\ calls' \in {FallbackCalls, TerminalCalls}) =>
       IF NonAutoLevelCount > 1
       THEN /\ LevelRemovalFallback
            /\ ~techError'
            /\ loadLevel >= 0 =>
                 /\ hlsLevels' = RemoveIndex(hlsLevels, loadLevel)
                 /\ LevelHeights(resolutions') =
                      LevelHeights(resolutions) \ {hlsLevels[loadLevel + 1].height}
       ELSE TerminalEscalation]_vars

\* C6: after terminal escalation no retry or recovery call reaches the engine.
C6_NoRecoveryAfterTerminal ==
  techErrors > 0 =>
    ~(Called("hls.startLoad") \/ Called("hls.recoverMediaError")
        \/ Called("hls.swapAudioCodec"))

\* C7: the "error" event is triggered on the tech at most once in a session.
C7_SingleErrorEvent == techErrors <= 1

\* C8: a network-error event that arrives while navigator.onLine is false
\* schedules no retry, removes no level, does not destroy the engine and
\* surfaces no error, whatever the occurrence count.
C8_OfflineNoOp ==
  [][(NetworkErrorStep /\ ~onLine) =>
       /\ calls' = <<>>
       /\ UNCHANGED <<hlsVars, timers, techError, techErrors, registryVars>>]_vars

C8_Witness ==
  /\ ~onLine
  /\ netRun = -1
  /\ errorCounts[NETWORK_ERROR] > maxNetworkErrorRecovery
  /\ ~retryScheduled /\ ~resetSeen
  /\ calls = <<>>
  /\ ~hlsDestroyed
  /\ Len(hlsLevels) > 1

\* C9: a FRAG_LOADED that follows a scheduled retry sets the network count to
\* 0, and in the runs of online network errors that follow such a reset every
\* error up to the ceiling (5, or 30 once live) again schedules a retry.
CeilingInForce ==
  IF liveReported THEN LiveMaxNetworkErrorRecovery ELSE DefaultMaxNetworkErrorRecovery

C9_FragLoadedResets ==
  /\ [][(OnFragLoaded /\ retryScheduled) => errorCounts'[NETWORK_ERROR] = 0]_vars
  /\ [][(NetworkErrorStep /\ onLine /\ resetSeen /\ netRun' >= 1
           /\ netRun' <= CeilingInForce) => RetryOnly]_vars

C9_Witness ==
  /\ resetSeen
  /\ ~liveReported
  /\ netRun = DefaultMaxNetworkErrorRecovery
  /\ calls = <<"setTimeout", "hls.once:FRAG_LOADED">>

\* C10: the list of the registry is sorted by descending height with the
\* automatic entries last, after any add, remove and select calls; adding
\* 720p (id 0) and 1080p (id 1), then the automatic entry, gives 1, 0, -1.
IsSortedDescending(res) ==
  \A i, j \in 1..Len(res) :
    i < j =>
      /\ res[i].id = AutoId => res[j].id = AutoId
      /\ (res[i].id # AutoId /\ res[j].id # AutoId) => res[i].height >= res[j].height

ExampleOrder ==
  LET first == SortResolutions(<<Entry(0, 720, FALSE), Entry(1, 1080, FALSE)>>)
      second == SortResolutions(first \o <<Entry(AutoId, 0, TRUE)>>)
  IN [k \in 1..Len(second) |-> second[k].id] = <<1, 0, AutoId>>

C10_SortedDescending == IsSortedDescending(resolutions) /\ ExampleOrder

C10_Witness ==
  /\ resolutions = <<Entry(1, 1080, FALSE), Entry(0, 720, FALSE), Entry(AutoId, 0, TRUE)>>
  /\ calls = RegistryAddCalls

\* ------------------------------------------------------------------------
\* Calls of the registry, as steps
\* ------------------------------------------------------------------------
AddStep(batch) == calls' = RegistryAddCalls /\ RegistryAdd(batch)

RemoveStep(id) == calls' = RegistryRemoveCalls /\ RegistryRemove(id)

SelectStep(id, autoId, fireCallback) ==
  /\ calls' \notin {RegistryAddCalls, RegistryRemoveCalls}
  /\ RegistrySelect(id, autoId)
  /\ calls' = RegistrySelectCalls(id, autoId, fireCallback)

SelectedCount(res) == Cardinality({k \in 1..Len(res) : res[k].selected})

Matches(res, id) == {k \in 1..Len(res) : res[k].id = id}

CallCount(cs, c) == Cardinality({k \in 1..Len(cs) : cs[k] = c})

Occurrences(res, e) == Cardinality({k \in 1..Len(res) : res[k] = e})

\* C11: after any select call (here the one the adapter makes on a
\* level-switching event, after the add calls it made on each manifest-parsed
\* event) at most one registry entry has selected = true.
C11_AtMostOneSelected ==
  [][(\E level \in 0..(MaxLevels - 1) : OnLevelSwitching(level))
       => SelectedCount(resolutions') <= 1]_vars

\* C12: a select call whose id and automatic-mode reference id are those of
\* the registry's current state emits nothing and changes nothing; and after
\* any select call, the same call made again would be such a call, so that the
\* repetition emits no notification.
C12_SelectIdempotent ==
  [][\A id \in RegIds, autoId \in RegIds, fireCallback \in BOOLEAN :
       SelectStep(id, autoId, fireCallback) =>
         /\ (/\ currentSelection # None
             /\ currentSelection[1].id = id
             /\ autoResolutionChosenId = Some(autoId))
              => (calls' = <<>> /\ UNCHANGED registryVars)
         /\ currentSelection' # None
         /\ currentSelection'[1].id = id
         /\ autoResolutionChosenId' = Some(autoId)]_vars

\* C13: a select call whose id or automatic-mode reference id differs from the
\* current state sets the reference to the requested one, sets selected on the
\* entries of the requested id and clears it on every other entry, invokes the
\* selectCallback of the matching entry if and only if fireCallback is true,
\* and emits exactly one resolutions-changed notification, last.
C13_SelectEffect ==
  [][\A id \in RegIds, autoId \in RegIds, fireCallback \in BOOLEAN :
       (SelectStep(id, autoId, fireCallback) /\ ~SelectShortCircuits(id, autoId)) =>
         /\ autoResolutionChosenId' = Some(autoId)
         /\ Len(resolutions') = Len(resolutions)
         /\ \A k \in 1..Len(resolutions) :
              /\ resolutions'[k].id = resolutions[k].id
              /\ resolutions'[k].height = resolutions[k].height
              /\ resolutions'[k].selected <=> (resolutions[k].id = id)
         /\ CallCount(calls', "selectCallback") =
              (IF fireCallback THEN Cardinality(Matches(resolutions, id)) ELSE 0)
         /\ CallCount(calls', "trigger:resolutions-changed") = 1
         /\ calls'[Len(calls')] = "trigger:resolutions-changed"
         /\ Len(calls') = CallCount(calls', "selectCallback") + 1]_vars

\* a select call with fireCallback has changed the selection to the one entry
\* of its id, cleared the flag of another, and invoked the callback
C13_Witness ==
  /\ calls = <<"selectCallback", "trigger:resolutions-changed">>
  /\ Len(resolutions) = MaxResolutions
  /\ SelectedCount(resolutions) = 1
  /\ currentSelection # None
  /\ currentSelection[1].id = 0
  /\ autoResolutionChosenId = Some(AutoId)

\* C14: remove(id) deletes the entries of that id, keeps the others in their
\* order, emits resolutions-removed and leaves the current selection and the
\* automatic-mode reference; when no entry has the id the list is unchanged.
C14_RemoveEffect ==
  [][\A id \in RegIds :
       RemoveStep(id) =>
         /\ resolutions' = SelectSeq(resolutions, LAMBDA r : r.id # id)
         /\ calls' = <<"trigger:resolutions-removed">>
         /\ UNCHANGED <<currentSelection, autoResolutionChosenId>>
         /\ (Matches(resolutions, id) = {}) => (resolutions' = resolutions)]_vars

\* a remove call has deleted the entry that was the current selection and
\* left another entry in the list
C14_Witness ==
  /\ calls = RegistryRemoveCalls
  /\ resolutions # <<>>
  /\ currentSelection # None
  /\ Matches(resolutions, currentSelection[1].id) = {}

\* C15: after a select call whose id matches no entry, no entry is selected
\* and the current selection is empty.
C15_UnmatchedSelectsNothing ==
  [][\A id \in RegIds, autoId \in RegIds, fireCallback \in BOOLEAN :
       (SelectStep(id, autoId, fireCallback) /\ Matches(resolutions, id) = {}) =>
         /\ SelectedCount(resolutions') = 0
         /\ currentSelection' = None]_vars

\* C16: when a video-change event was followed by a new source, the registry
\* lists, once the manifest of that source is parsed, the levels of that
\* source and the automatic entry only, each id once.
C16_RegistryClearedOnSourceChange ==
  [][(changePhase = "sourced" /\ \E n \in 1..MaxLevels : OnManifestParsed(n)) =>
       /\ Len(resolutions') = Len(metadata'[1]) + 1
       /\ \A j \in 1..Len(resolutions'), k \in 1..Len(resolutions') :
            (j # k) => (resolutions'[j].id # resolutions'[k].id)]_vars

\* C17: add keeps every existing entry and appends every given one, without
\* deduplicating; the list is sorted when the single resolutions-added
\* notification is emitted; the current selection is an entry whose id is the
\* automatic-mode reference id, empty when there is none.
C17_AddEffect ==
  [][\A batch \in RegBatches :
       AddStep(batch) =>
         /\ Len(resolutions') = Len(resolutions) + Len(batch)
         /\ \A e \in RegEntries \cup {resolutions[k] : k \in 1..Len(resolutions)} :
              Occurrences(resolutions', e)
                = Occurrences(resolutions, e) + Occurrences(batch, e)
         /\ IsSortedDescending(resolutions')
         /\ calls' = <<"trigger:resolutions-added">>
         /\ IF autoResolutionChosenId = None
               \/ Matches(resolutions', autoResolutionChosenId[1]) = {}
            THEN currentSelection' = None
            ELSE /\ currentSelection' # None
                 /\ currentSelection'[1].id = autoResolutionChosenId[1]
                 /\ \E k \in 1..Len(resolutions') :
                      Ref(resolutions'[k]) = currentSelection'[1]
         /\ UNCHANGED autoResolutionChosenId]_vars

\* an add call on a list that had an entry of the same id: both are listed,
\* and the current selection is the entry of the automatic-mode reference id
C17_Witness ==
  /\ calls = RegistryAddCalls
  /\ Len(resolutions) = MaxResolutions
  /\ Cardinality(Matches(resolutions, 0)) >= 2
  /\ currentSelection # None
  /\ autoResolutionChosenId = Some(0)

\* the engines that are live: the one of the provider the tech holds and the
\* ones left behind
LiveEngines == orphanEngines + (IF hlsDestroyed THEN 0 ELSE 1)

\* C18: at most one engine is live per tech, none when the tech holds no
\* provider (before the first handleSource and after the plugin's dispose);
\* handleSource destroys the engine of the provider it replaces first.
C18_OneLiveEngine ==
  /\ [](LiveEngines <= 1 /\ (~hlsProvider => LiveEngines = 0))
  /\ [][(hlsProvider /\ \E src \in VideoSources : HandleSource(src))
          => calls' = <<"hls.destroy">> \o NewProviderCalls]_vars
  /\ [][PluginDispose => (~hlsProvider' /\ hlsDestroyed')]_vars

\* a second source was handled: the first provider was disposed of and the
\* new one has the only live engine
C18_Witness ==
  /\ calls = <<"hls.destroy">> \o NewProviderCalls
  /\ hlsProvider
  /\ ~hlsDestroyed
  /\ LiveEngines = 1

\* C19: the handler is registered at most once; a registerSourceHandler call
\* that returns because Hls.js is unsupported or the Html5 tech is missing
\* leaves the guard and registers nothing, and a call that passes both tests
\* while the guard is unset registers.
C19_RegisteredOnce ==
  /\ [](registrations <= 1 /\ (alreadyRegistered <=> registrations = 1))
  /\ [][\A own \in BOOLEAN, supported \in BOOLEAN, html5 \in BOOLEAN :
          (PluginConstructed(own, TRUE, supported, html5) /\ ~(supported /\ html5))
            => UNCHANGED <<alreadyRegistered, registrations>>]_vars
  /\ [][\A own \in BOOLEAN :
          (PluginConstructed(own, TRUE, TRUE, TRUE) /\ ~alreadyRegistered)
            => (alreadyRegistered' /\ registrations' = 1)]_vars

\* a call registered the handler after an earlier call had been refused
C19_Witness ==
  /\ refused
  /\ registrations = 1
  /\ calls = <<"html5.registerSourceHandler">>

\* C20: canHandleSource returns "probably" when the type or the extension of
\* the source indicates HLS, and the empty string otherwise.
C20_CanHandleSourceProbably ==
  (Len(calls) = 3 /\ calls[1] = "canHandleSource") =>
    calls[3] = (IF HlsTypeRE(TextOf(calls[2].type)) \/ HlsExtRE(TextOf(calls[2].src))
                THEN "probably" ELSE "")

\* ------------------------------------------------------------------------
\* The registry's answers
\* ------------------------------------------------------------------------
SelectedEntries(res) == {res[k] : k \in {j \in 1..Len(res) : res[j].selected}}

\* C21: after any sequence of add, remove and select calls, getSelected()
\* returns the entry whose selected flag is true, and nothing when no entry is
\* selected.
C21_GetSelectedIsSelected ==
  LET got == GetSelectedIn(resolutions, autoResolutionChosenId)
  IN IF SelectedEntries(resolutions) = {}
     THEN got = None
     ELSE got # None /\ got[1] \in SelectedEntries(resolutions)

\* C29: after any sequence of add, remove and select calls, the current
\* selection is empty or an entry still in the list whose selected flag is
\* true: a removed entry is never the current selection.
C29_CurrentSelectionListed ==
  \/ currentSelection = None
  \/ \E e \in SelectedEntries(resolutions) : Ref(e) = currentSelection[1]

\* ------------------------------------------------------------------------
\* Level switching
\* ------------------------------------------------------------------------
\* C22: after every level-switching event handled by the adapter, exactly one
\* of the selected id and the automatic-mode reference id is -1. In automatic
\* mode the automatic entry is the selected one and the reference, the entry
\* getSelected returns, is the level being switched to; in manual mode the
\* entry of the switched-to level is the selected one and the reference is -1.
\* The adapter never invokes a selectCallback.
C22_SwitchingSelection ==
  [][\A level \in 0..(MaxFallbackLevels - 1) :
       OnLevelSwitching(level) =>
         LET got == GetSelectedIn(resolutions', autoResolutionChosenId')
             chosen == SelectedEntries(resolutions')
         IN /\ CallCount(calls', "selectCallback") = 0
            /\ chosen # {}
            /\ IF manualLevel = -1
               THEN /\ \A e \in chosen : e.id = AutoId
                    /\ autoResolutionChosenId' = Some(level)
                    /\ got # None
                    /\ got[1].id = level
                    /\ got[1].height = hlsLevels[level + 1].height
               ELSE /\ \A e \in chosen :
                         e.id = level /\ e.height = hlsLevels[level + 1].height
                    /\ autoResolutionChosenId' = Some(AutoId)]_vars

\* ------------------------------------------------------------------------
\* The recovery policy, event by event
\* ------------------------------------------------------------------------
RecoveryCalls == {"hls.startLoad", "setTimeout", "hls.recoverMediaError", "hls.swapAudioCodec"}

\* C24: a fatal error of a type other than network and media, and a fatal
\* media error with the detail manifestIncompatibleCodecsError, take the
\* unrecoverable path at once, on the first occurrence as on any other: no
\* startLoad, recoverMediaError or swapAudioCodec call is made for them.
C24_NoLadderForOtherErrors ==
  [][\A type \in {MEDIA_ERROR, OTHER_ERROR}, details \in ErrorDetails :
       (/\ type = MEDIA_ERROR => details = IncompatibleCodecs
        /\ OnError(type, TRUE, details))
         => /\ UnrecoverablePath
            /\ \A k \in 1..Len(calls') : calls'[k] \notin RecoveryCalls
            /\ timers' = timers]_vars

\* the first media-error event of the session is fatal with the detail
\* manifestIncompatibleCodecsError and has removed a level
C24_Witness ==
  /\ errorCounts[MEDIA_ERROR] = 1
  /\ errorCounts[OTHER_ERROR] = 0
  /\ mediaRun = -1
  /\ calls = FallbackCalls

\* C25: a non-fatal error event has no effect on the recovery policy: it
\* schedules no retry, makes no recovery call, removes no level, surfaces no
\* error, and leaves the stage of the ladder the next fatal error of its
\* classification will take (the occurrence count the ladder reads).
C25_NonFatalNoEffect ==
  [][\A type \in ErrorTypes, details \in ErrorDetails :
       OnError(type, FALSE, details) =>
         /\ calls' = <<>>
         /\ UNCHANGED <<hlsVars, timers, techError, techErrors, registryVars>>
         /\ errorCounts'[type] = errorCounts[type]]_vars

\* C26: after a level-removal fallback the ladder starts again: the next error
\* of the classification that caused the fallback gets a recovery attempt (a
\* retry for a network error with the device online, recoverMediaError for a
\* fatal media error) before another level is removed or the session ends.
\* Stated for the error that follows the fallback at once, in a session whose
\* errors so far are all of that one classification.
C26_LadderRestartsAfterFallback ==
  [][/\ (/\ calls = FallbackCalls
         /\ errorCounts[MEDIA_ERROR] = 0 /\ errorCounts[OTHER_ERROR] = 0
         /\ onLine
         /\ NetworkErrorStep) => RetryOnly
     /\ (/\ calls = FallbackCalls
         /\ errorCounts[NETWORK_ERROR] = 0 /\ errorCounts[OTHER_ERROR] = 0
         /\ mediaRun >= 3
         /\ FatalMediaErrorStep)
          => /\ calls' = <<"hls.recoverMediaError">>
             /\ UNCHANGED <<hlsVars, techErrors, resolutions>>]_vars

\* ------------------------------------------------------------------------
\* The registry and the engine after level removals
\* ------------------------------------------------------------------------
LevelIds(res) == {res[k].id : k \in {i \in 1..Len(res) : res[i].id # AutoId}}

\* C27: while the engine lives, after the manifest was parsed and after any
\* number of level-removal fallbacks, the ids of the non-automatic registry
\* entries are exactly the indices of the levels the engine holds, and each
\* entry describes the level of its id (the level its selectCallback sets).
C27_RegistryIdsAreEngineIndices ==
  (~hlsDestroyed /\ metadata # None) =>
    /\ LevelIds(resolutions) = 0..(Len(hlsLevels) - 1)
    /\ \A k \in 1..Len(resolutions) :
         resolutions[k].id # AutoId =>
           resolutions[k].height = hlsLevels[resolutions[k].id + 1].height

\* C28: while the session has not ended, the registry lists the automatic
\* entry (id -1): no level-removal fallback removes it, the one taken while
\* hls.loadLevel is -1 included.
C28_AutoEntryKept ==
  (~hlsDestroyed /\ metadata # None) => FindById(resolutions, AutoId) # None

\* ------------------------------------------------------------------------
\* Termination of the network retries
\* ------------------------------------------------------------------------
\* C23: when the device stays online, the provider is not disposed, every
\* scheduled retry fires and is followed by another network error and no
\* fragment ever loads, then after finitely many retries and level removals
\* the engine is destroyed and a terminal error is surfaced.
C23_RetriesTerminate == <>(hlsDestroyed /\ techError)

\* ------------------------------------------------------------------------
\* The Hlsjs tech's treatment of errors
\* ------------------------------------------------------------------------
Precedes(cs, a, b) ==
  \E i, j \in 1..Len(cs) : i < j /\ cs[i] = a /\ cs[j] = b

\* the engine is destroyed and error code 3 is surfaced by the step
TechAborted ==
  /\ CallCount(calls', "hls.destroy") = 1
  /\ CallCount(calls', "trigger:error") = 1
  /\ techHlsDestroyed'
  /\ techErrorCode' = Some(3)
  /\ techErrorEvents' = techErrorEvents + 1

\* C30: in the Hlsjs tech's onError_, the engine is destroyed and error code 3
\* surfaced exactly when the detail is manifest load error, manifest load
\* timeout or manifest parsing error, fatal or not, or the error is fatal and
\* of a type other than network and media. A fatal network error calls
\* startLoad and triggers waiting; a fatal media error calls swapAudioCodec,
\* then recoverMediaError, and triggers waiting; any other non-fatal error
\* changes nothing. onMediaError_ treats a decode error of the video element
\* as a fatal media error and ignores the other codes.
C30_TechErrorClasses ==
  [][/\ \A type \in ErrorTypes, fatal \in BOOLEAN, details \in TechErrorDetails :
          onError_(type, fatal, details) =>
            LET abort == \/ details \in AbortDetails
                         \/ fatal /\ type \notin {NETWORK_ERROR, MEDIA_ERROR}
            IN /\ TechAborted <=> abort
               /\ (~abort /\ fatal /\ type = NETWORK_ERROR) =>
                    /\ CallCount(calls', "hls.startLoad") = 1
                    /\ CallCount(calls', "trigger:waiting") = 1
                    /\ UNCHANGED <<techHlsDestroyed, techErrorCode, techErrorEvents>>
               /\ (~abort /\ fatal /\ type = MEDIA_ERROR) =>
                    /\ CallCount(calls', "hls.swapAudioCodec") = 1
                    /\ CallCount(calls', "hls.recoverMediaError") = 1
                    /\ Precedes(calls', "hls.swapAudioCodec", "hls.recoverMediaError")
                    /\ CallCount(calls', "trigger:waiting") = 1
                    /\ UNCHANGED <<techHlsDestroyed, techErrorCode, techErrorEvents>>
               /\ (~abort /\ ~fatal) =>
                    (calls' = <<>> /\ UNCHANGED hlsjsTechVars)
     /\ \A code \in 1..4 :
          onMediaError_(code) =>
            IF code = MEDIA_ERR_DECODE
            THEN /\ Precedes(calls', "hls.swapAudioCodec", "hls.recoverMediaError")
                 /\ CallCount(calls', "trigger:waiting") = 1
                 /\ UNCHANGED <<techHlsDestroyed, techErrorCode, techErrorEvents>>
            ELSE calls' = <<>> /\ UNCHANGED hlsjsTechVars]_vars

\* onError_ has destroyed the engine and surfaced error code 3 for the third
\* time, setSrc having created another engine after the earlier ones
C30_Witness ==
  /\ calls = <<"hls.destroy", "trigger:error">>
  /\ techHlsDestroyed
  /\ techErrorCode = Some(3)
  /\ techErrorEvents = MaxTechErrorEvents
  /\ elementErrorListeners > 1

====
